---- MODULE Spec2Model ----
(***************************************************************************)
(* Client view components of the social web application: the paginated     *)
(* reels feed (cursor pagination, optimistic like toggle, nearest-slide    *)
(* tracking), the simple reels feed, the notifications page and the post   *)
(* feed.  One component is mounted per behaviour (variable view); fetches  *)
(* are asynchronous, so every request in flight is part of the state and   *)
(* its resolution is a separate step of the event loop.                    *)
(***************************************************************************)
EXTENDS Integers, Sequences, FiniteSets, Bags, TLC

\* ---------------------------------------------------------------- bounds
MaxItems == 3       \* reels the listing endpoint can serve / list length
MaxPending == 2     \* listing requests in flight
MaxLikes == 2       \* like clicks that reach the optimistic update

SlideH == 2          \* height of one snap slide, in scroll units
Overscroll == 1      \* how far a scroll event can report past either end
MaxQueued == 2       \* play() promises, and media events, awaiting delivery

\* ------------------------------------------------------ program constants
Lookahead == 2      \* bestIdx >= children.length - 2

\* ------------------------------------------------------- optional values
\* An optional value (undefined / null in the source) is the empty
\* sequence; a present value v is <<v>>.
Absent == << >>
Null == << >>
Some(v) == <<v>>

LoginPath == "/login?next=/reels"
ErrMsg == Some("HTTP 500")

Views == {"reels", "videos", "notifications", "feed"}

VARIABLES
  view,         \* which component this behaviour mounts
  phase,        \* "new" (constructed), "mounted", "unmounted"
  items,        \* useState<Reel[]>([])
  loading,      \* useState(...)  loading flag
  cursor,       \* useState<string | null>(null)
  hasMore,      \* useState(true)
  err,          \* useState<string | null>(null)
  activeIndex,  \* useState(0)
  authed,       \* Boolean(me?.user?.id)
  meLoading,    \* useMe().loading
  pending,      \* bag of listing requests in flight
  likes,        \* bag of reel ids whose like request is in flight
  route,        \* last path handed to router.push ("" = none)
  hist,         \* history, parallel to items: toggles applied and reverted
  clicks,       \* history: like clicks that reached the optimistic update
  lastOp,       \* history: the last operation on the page state
  scrollTop,    \* el.scrollTop of the list container
  listening,    \* simple reels feed: the scroll listener is attached
  slide         \* simple reels feed: the ReelSlide of the first reel, if rendered

vars == <<view, phase, items, loading, cursor, hasMore, err, activeIndex,
          authed, meLoading, pending, likes, route, hist, clicks, lastOp,
          scrollTop, listening, slide>>

\* ------------------------------------------------------------ data model
\* The viewer-relative part of a Reel as the server sends it: the server's
\* catalogue gives reel 1 a like of the viewer that its counter misses,
\* reel 2 a counted like of somebody else, reel 3 neither field, and so on.
PlainKind == [viewerHasLiked |-> Absent, likesCount |-> Absent]

Served(id) ==
  CASE id % 3 = 1 -> [viewerHasLiked |-> Some(TRUE),  likesCount |-> Some(0)]
    [] id % 3 = 2 -> [viewerHasLiked |-> Some(FALSE), likesCount |-> Some(1)]
    [] OTHER      -> PlainKind

Reel(id, k) ==
  [id |-> id, viewerHasLiked |-> k.viewerHasLiked, likesCount |-> k.likesCount]

Request(initial, c, alive) == [initial |-> initial, cursor |-> c, alive |-> alive]

\* The listing endpoint: the page after cursor c holds the reels that follow
\* reel number Base(c); the cursor it returns names the last reel served.
Base(c) == IF c = Null THEN 0 ELSE c[1]

Min(a, b) == IF a < b THEN a ELSE b
Max(a, b) == IF a > b THEN a ELSE b

PageItems(c, n, withLikes) ==
  [i \in 1..n |-> Reel(Base(c) + i, IF withLikes THEN Served(Base(c) + i) ELSE PlainKind)]

\* Every body the endpoint may answer a request for cursor c with, when the
\* list has room for `room` more items.
ListingResponses(c, room, withLikes) ==
  UNION { { [items |-> PageItems(c, n, withLikes), nextCursor |-> nc, hasMore |-> hm] :
              nc \in {Null} \cup (IF Base(c) + n > 0 THEN {Some(Base(c) + n)} ELSE {}),
              hm \in {Absent, Some(TRUE), Some(FALSE)} } :
          n \in 0..Min(room, MaxItems - Base(c)) }

\* ------------------------------------------------------- pure functions
\* part_000:56  Boolean(data?.hasMore ?? nextCursor)
NextHasMoreCursorOnly(resp) == resp.nextCursor # Null

NextHasMore(resp) ==
  IF resp.hasMore # Absent THEN resp.hasMore[1] ELSE resp.nextCursor # Null

\* part_000:122-126  the like toggle formula (undefined is falsy / ?? 0)
Truthy(b) == b # Absent /\ b[1]
OrZero(n) == IF n = Absent THEN 0 ELSE n[1]

ToggleNoClamp(r) ==
  [r EXCEPT !.viewerHasLiked = Some(~Truthy(r.viewerHasLiked)),
            !.likesCount = Some(OrZero(r.likesCount)
                                 + (IF Truthy(r.viewerHasLiked) THEN -1 ELSE 1))]

Toggle(r) ==
  [r EXCEPT !.viewerHasLiked = Some(~Truthy(r.viewerHasLiked)),
            !.likesCount = Some(Max(0, OrZero(r.likesCount)
                                 + (IF Truthy(r.viewerHasLiked) THEN -1 ELSE 1)))]

\* prev.map((r) => r.id === reelId ? toggle(r) : r)
ToggleById(prev, reelId) ==
  [i \in 1..Len(prev) |-> IF prev[i].id = reelId THEN Toggle(prev[i]) ELSE prev[i]]

\* part_000:84-93  nearest slide, first one wins ties (strict <)
Abs(x) == IF x < 0 THEN -x ELSE x
OffsetTop(idx) == idx * SlideH
Dist(idx, top) == Abs(OffsetTop(idx) - top)

RECURSIVE BestFrom(_, _, _, _, _)
BestFrom(idx, n, top, bestIdx, bestDist) ==
  IF idx >= n THEN bestIdx
  ELSE IF bestDist = -1 \/ Dist(idx, top) < bestDist
       THEN BestFrom(idx + 1, n, top, idx, Dist(idx, top))
       ELSE BestFrom(idx + 1, n, top, bestIdx, bestDist)

\* bestDist = -1 stands for Infinity
BestIdx(n, top) == BestFrom(0, n, top, 0, -1)

\* part_000:98  prefetch condition
ShouldPrefetchNoHasMore(bestIdx, n) == ~loading /\ bestIdx >= n - Lookahead

ShouldPrefetch(bestIdx, n) == hasMore /\ ~loading /\ bestIdx >= n - Lookahead

\* part_000:107-113  requireAuth() returns true when it redirected
requireAuthWhileResolving == ~authed /\ meLoading

requireAuth == ~authed /\ ~meLoading

\* part_000:241  what the like button shows of a reel
Shown(r) ==
  [viewerHasLiked |-> Truthy(r.viewerHasLiked), likesCount |-> OrZero(r.likesCount)]

\* part_000:163-183  which of the three renders is on screen
ShowsLoading == loading /\ Len(items) = 0
ShowsError == ~ShowsLoading /\ err # Null /\ Len(items) = 0
ShowsList == ~ShowsLoading /\ ~ShowsError

\* ------------------------------------------------------------- history
NewHist(s) ==
  [i \in 1..Len(s) |-> [applied |-> 0, reverted |-> 0, raced |-> FALSE]]

\* ------------------------------------------------------------------ Init
Init ==
  /\ view \in Views
  /\ phase = "new"
  /\ items = << >>
  /\ loading = (view # "notifications")
  /\ cursor = Null
  /\ hasMore = TRUE
  /\ err = Null
  /\ activeIndex = 0
  /\ authed = FALSE
  /\ meLoading = TRUE
  /\ pending = EmptyBag
  /\ likes = EmptyBag
  /\ route = ""
  /\ hist = << >>
  /\ clicks = 0
  /\ lastOp = "init"
  /\ scrollTop = 0
  /\ listening = FALSE
  /\ slide = << >>

\* ------------------------------------------------- paginated reels feed
\* part_000:38-46  loadMore up to the await
loadMoreStart(initial) ==
  /\ err' = Null
  /\ loading' = IF initial THEN TRUE ELSE loading
  /\ pending' = pending (+) SetToBag({Request(initial,
                                  IF ~initial /\ cursor # Null THEN cursor ELSE Null,
                                  TRUE)})

\* part_000:69-72  mount effect
ReelsMount ==
  /\ UNCHANGED <<scrollTop, listening, slide>>
  /\ view = "reels" /\ phase = "new"
  /\ phase' = "mounted"
  /\ loadMoreStart(TRUE)
  /\ lastOp' = "mount"
  /\ UNCHANGED <<view, items, cursor, hasMore, activeIndex, authed, meLoading,
                 likes, route, hist, clicks>>

\* part_000:177  Reintentar
ReelsRetry ==
  /\ UNCHANGED <<scrollTop, listening, slide>>
  /\ view = "reels" /\ phase = "mounted"
  /\ ShowsError
  /\ BagCardinality(pending) < MaxPending
  /\ loadMoreStart(TRUE)
  /\ lastOp' = "retry"
  /\ UNCHANGED <<view, phase, items, cursor, hasMore, activeIndex, authed,
                 meLoading, likes, route, hist, clicks>>

\* part_000:52-60, 64-66  the request resolved with a 2xx body
loadMoreOk(req, resp) ==
  /\ items' = IF req.initial THEN resp.items ELSE items \o resp.items
  /\ hist' = IF req.initial THEN NewHist(resp.items) ELSE hist \o NewHist(resp.items)
  /\ cursor' = resp.nextCursor
  /\ hasMore' = (NextHasMore(resp) /\ Len(resp.items) > 0)
  /\ loading' = FALSE
  /\ UNCHANGED err

ReelsLoadOk ==
  /\ UNCHANGED <<scrollTop, listening, slide>>
  /\ view = "reels"
  /\ \E req \in BagToSet(pending) :
       /\ pending' = pending (-) SetToBag({req})
       /\ \E resp \in ListingResponses(req.cursor,
                        IF req.initial THEN MaxItems ELSE MaxItems - Len(items),
                        TRUE) :
            loadMoreOk(req, resp)
       /\ lastOp' = IF req.initial THEN "initialOk" ELSE "moreOk"
  /\ UNCHANGED <<view, phase, activeIndex, authed, meLoading, likes, route, clicks>>

\* part_000:47-50, 61-66  non-2xx or transport error
loadMoreFailKeepLoading(req) ==
  /\ err' = ErrMsg
  /\ hasMore' = FALSE
  /\ UNCHANGED <<loading, items, hist, cursor>>

loadMoreFail(req) ==
  /\ err' = ErrMsg
  /\ hasMore' = FALSE
  /\ loading' = FALSE
  /\ UNCHANGED <<items, hist, cursor>>

ReelsLoadFail ==
  /\ UNCHANGED <<scrollTop, listening, slide>>
  /\ view = "reels"
  /\ \E req \in BagToSet(pending) :
       /\ pending' = pending (-) SetToBag({req})
       /\ loadMoreFail(req)
       /\ lastOp' = IF req.initial THEN "initialFail" ELSE "moreFail"
  /\ UNCHANGED <<view, phase, activeIndex, authed, meLoading, likes, route, clicks>>

\* The positions a scroll event can report for n slides: the scrollable
\* extent plus the elastic overscroll at either end.
ScrollRange(n) == (0 - Overscroll)..((n - 1) * SlideH + Overscroll)

\* part_000:79-101  scroll listener of the list container
onScroll(top) ==
  LET n == Len(items)
      bestIdx == BestIdx(n, top)
  IN /\ activeIndex' = bestIdx
     /\ IF ShouldPrefetch(bestIdx, n)
        THEN loadMoreStart(FALSE)
        ELSE UNCHANGED <<err, loading, pending>>

ReelsScroll ==
  /\ UNCHANGED <<listening, slide>>
  /\ view = "reels" /\ phase = "mounted"
  /\ ShowsList
  /\ Len(items) > 0
  /\ BagCardinality(pending) < MaxPending
  /\ \E top \in ScrollRange(Len(items)) :
       /\ scrollTop' = top
       /\ onScroll(top)
  /\ lastOp' = "scroll"
  /\ UNCHANGED <<view, phase, items, cursor, hasMore, authed, meLoading, likes,
                 route, hist, clicks>>

\* part_000:115-132  like button, if a click on a reel whose like request
\* is still in flight were dropped
onLikeCoalesced(reelId) ==
  IF requireAuth
  THEN /\ route' = LoginPath
       /\ UNCHANGED <<items, hist, likes, clicks>>
  ELSE /\ clicks < MaxLikes
       /\ clicks' = clicks + 1
       /\ UNCHANGED route
       /\ IF BagIn(reelId, likes)
          THEN UNCHANGED <<items, hist, likes>>
          ELSE /\ items' = ToggleById(items, reelId)
               /\ hist' = [i \in 1..Len(hist) |->
                             IF items[i].id = reelId
                             THEN [hist[i] EXCEPT !.applied = @ + 1] ELSE hist[i]]
               /\ likes' = likes (+) SetToBag({reelId})

\* part_000:115-132  like button of reel reelId, up to the await
onLike(reelId) ==
  IF requireAuth
  THEN /\ route' = LoginPath
       /\ UNCHANGED <<items, hist, likes, clicks>>
  ELSE /\ clicks < MaxLikes
       /\ items' = ToggleById(items, reelId)
       /\ hist' = [i \in 1..Len(hist) |->
                     IF items[i].id = reelId
                     THEN [hist[i] EXCEPT !.applied = @ + 1,
                                          !.raced = @ \/ BagIn(reelId, likes)]
                     ELSE hist[i]]
       /\ likes' = likes (+) SetToBag({reelId})
       /\ clicks' = clicks + 1
       /\ UNCHANGED route

ReelsLike ==
  /\ UNCHANGED <<scrollTop, listening, slide>>
  /\ view = "reels" /\ phase = "mounted"
  /\ ShowsList
  /\ \E i \in 1..Len(items) : onLike(items[i].id)
  /\ UNCHANGED <<view, phase, loading, cursor, hasMore, err, activeIndex,
                 authed, meLoading, pending, lastOp>>

\* part_000:132-133  the like request resolved with res.ok
ReelsLikeOk ==
  /\ UNCHANGED <<scrollTop, listening, slide>>
  /\ view = "reels"
  /\ \E reelId \in BagToSet(likes) : likes' = likes (-) SetToBag({reelId})
  /\ UNCHANGED <<view, phase, items, loading, cursor, hasMore, err, activeIndex,
                 authed, meLoading, pending, route, hist, clicks, lastOp>>

\* part_000:133-160  !res.ok or a thrown error: apply the formula once more
ReelsLikeFail ==
  /\ UNCHANGED <<scrollTop, listening, slide>>
  /\ view = "reels"
  /\ \E reelId \in BagToSet(likes) :
       /\ likes' = likes (-) SetToBag({reelId})
       /\ items' = ToggleById(items, reelId)
       /\ hist' = [i \in 1..Len(hist) |->
                     IF items[i].id = reelId
                     THEN [hist[i] EXCEPT !.reverted = @ + 1] ELSE hist[i]]
  /\ UNCHANGED <<view, phase, loading, cursor, hasMore, err, activeIndex,
                 authed, meLoading, pending, route, clicks, lastOp>>

\* Navigation away: the component is torn down (it holds no liveness flag).
ReelsUnmount ==
  /\ UNCHANGED <<scrollTop, listening, slide>>
  /\ view = "reels" /\ phase = "mounted"
  /\ phase' = "unmounted"
  /\ UNCHANGED <<view, items, loading, cursor, hasMore, err, activeIndex,
                 authed, meLoading, pending, likes, route, hist, clicks, lastOp>>

\* ------------------------------------- views with a liveness flag
\* A fetched body: the item array may be missing from it.
Bodies == {Absent} \cup { Some(PageItems(Null, n, FALSE)) : n \in 0..MaxItems }

\* Array.isArray(x) ? x : []   /   data.items || data.posts || data.data || []
Normalise(body) == IF body = Absent THEN << >> ELSE body[1]

\* return () => { mounted = false }: the flag every pending closure reads
ClearAlive(bag) == SetToBag({ [r EXCEPT !.alive = FALSE] : r \in BagToSet(bag) })

\* the body of the load effect up to the await
FlaggedLoadStart ==
  /\ loading' = TRUE
  /\ err' = Null
  /\ pending' = pending (+) SetToBag({Request(TRUE, Null, TRUE)})

\* try { ...; if (!mounted) return; setItems(...) } finally { if (!mounted) return; setLoading(false) }
FlaggedLoadOk(req, body) ==
  IF req.alive
  THEN /\ items' = Normalise(body)
       /\ loading' = FALSE
       /\ UNCHANGED err
  ELSE UNCHANGED <<items, loading, err>>

\* catch (e) { if (!mounted) return; setErr(...) } finally { ...setLoading(false) }
FlaggedLoadFail(req) ==
  IF req.alive
  THEN /\ err' = ErrMsg
       /\ loading' = FALSE
       /\ UNCHANGED items
  ELSE UNCHANGED <<items, loading, err>>

\* ReelsClient.tsx:298-333  the branch of the render that holds the container
VideosShowsList == ~meLoading /\ ~loading /\ err = Null /\ Len(items) > 0

\* ReelsClient.tsx:284-296  listener effect, deps [items.length]: it runs
\* again only when the number of items changed, and attaches the listener
\* only if the container is in the committed render.
ListenerEffect ==
  listening' = IF Len(items') # Len(items)
               THEN ~meLoading /\ ~loading' /\ err' = Null /\ Len(items') > 0
               ELSE listening

\* ------------------------------------------------ ReelSlide of one reel
\* The slide of the first reel (index 0) is followed.  Its state: the
\* reel's locked attribute, the muted and playing flags, whether the
\* <video> is in the DOM and whether it is paused, the play() promises
\* still to settle (req: will resolve unless aborted, rej: will reject)
\* and the media events queued for onPlay / onPause.
NewSlide(gated) ==
  [gated |-> gated, muted |-> TRUE, playing |-> FALSE, video |-> FALSE,
   paused |-> TRUE, req |-> 0, rej |-> 0, evq |-> << >>]

\* ReelsClient.tsx:109  const locked = Boolean(reel.locked) && !authed
Locked(s, isAuthed) == s.gated /\ ~isAuthed

\* ReelsClient.tsx:143-174  the committed render: the <video> exists only
\* while the slide is not locked.  A removed element is paused by the
\* browser, which rejects its pending play() promises; events fired at the
\* removed node reach no handler.  A new element starts paused.
Commit(s, locked) ==
  IF locked /\ s.video
  THEN [s EXCEPT !.video = FALSE, !.paused = TRUE,
                 !.rej = s.rej + s.req, !.req = 0, !.evq = << >>]
  ELSE IF ~locked /\ ~s.video
       THEN [s EXCEPT !.video = TRUE, !.paused = TRUE]
       ELSE s

\* v.pause(): no-op on a paused element; otherwise queues the pause event
\* and aborts the pending play() promises
Pause(s) ==
  IF s.paused THEN s
  ELSE [s EXCEPT !.paused = TRUE, !.evq = Append(s.evq, "pause"),
                 !.rej = s.rej + s.req, !.req = 0]

\* v.play(): allowed (the element leaves paused, queueing the play event,
\* and the promise waits for playback) or refused by the autoplay policy
Play(s) ==
  { [s EXCEPT !.paused = FALSE, !.req = s.req + 1,
              !.evq = IF s.paused THEN Append(s.evq, "play") ELSE s.evq],
    [s EXCEPT !.rej = s.rej + 1] }

\* ReelsClient.tsx:111-137  the playback effect, deps [active, muted, locked]
Effect(s, active, locked) ==
  IF ~s.video THEN {s}
  ELSE IF ~active \/ locked
       THEN {[Pause(s) EXCEPT !.playing = FALSE]}
       ELSE Play(s)

\* One re-render of the slide: commit, then the effect if a dep changed.
SlideRender(s, activeOld, activeNew, lockedOld, lockedNew, mutedFlip) ==
  LET s1 == [s EXCEPT !.muted = IF mutedFlip THEN ~s.muted ELSE s.muted]
      s2 == Commit(s1, lockedNew)
  IN IF activeOld # activeNew \/ lockedOld # lockedNew \/ mutedFlip
     THEN Effect(s2, activeNew, lockedNew)
     ELSE {s2}

\* First render of the slide: the effect always runs.
SlideMount(gated, active, isAuthed) ==
  LET s == NewSlide(gated)
  IN Effect(Commit(s, Locked(s, isAuthed)), active, Locked(s, isAuthed))

\* room for one more play() promise and one more media event
SlideRoom ==
  IF slide = << >> THEN TRUE
  ELSE slide[1].req + slide[1].rej < MaxQueued /\ Len(slide[1].evq) < MaxQueued

\* ReelsClient.tsx:341-343  the list branch renders the slides: the slide
\* mounts with the list.  shown: the list branch is taken after this step.
SlideFollows(shown, activeNew, authedNew) ==
  IF slide = << >>
  THEN IF shown
       THEN \E gated \in BOOLEAN :
              slide' \in { <<t>> : t \in SlideMount(gated, activeNew, authedNew) }
       ELSE UNCHANGED slide
  ELSE slide' \in { <<t>> : t \in
                     SlideRender(slide[1], activeIndex = 0, activeNew,
                                 Locked(slide[1], authed),
                                 Locked(slide[1], authedNew), FALSE) }

\* Math.round(top / h): a midpoint rounds up
Round(top, h) == (2 * top + h) \div (2 * h)

\* ReelsClient.tsx:288-292  the handler of the scroll listener
VideosOnScrollNoClamp(top) ==
  activeIndex' = Round(top, SlideH)

VideosOnScroll(top) ==
  activeIndex' = Max(0, Min(Round(top, SlideH), Len(items) - 1))

\* A scroll event on the container; the handler runs if it is attached.
VideosScroll ==
  /\ view = "videos" /\ phase = "mounted"
  /\ VideosShowsList
  /\ SlideRoom
  /\ \E top \in ScrollRange(Len(items)) :
       /\ scrollTop' = top
       /\ IF listening THEN VideosOnScroll(top) ELSE UNCHANGED activeIndex
  /\ SlideFollows(TRUE, activeIndex' = 0, authed)
  /\ lastOp' = "scroll"
  /\ UNCHANGED <<view, phase, items, loading, cursor, hasMore, err, authed,
                 meLoading, pending, likes, route, hist, clicks, listening>>

\* ReelsClient.tsx:213  the mute button of the slide
MuteToggle ==
  /\ view = "videos" /\ phase = "mounted"
  /\ slide # << >>
  /\ SlideRoom
  /\ slide' \in { <<t>> : t \in
                    SlideRender(slide[1], activeIndex = 0, activeIndex = 0,
                                Locked(slide[1], authed),
                                Locked(slide[1], authed), TRUE) }
  /\ UNCHANGED <<view, phase, items, loading, cursor, hasMore, err,
                 activeIndex, authed, meLoading, pending, likes, route, hist,
                 clicks, lastOp, scrollTop, listening>>

\* ReelsClient.tsx:126-133  await v.play() resolved: setPlaying(true)
PlayResolved ==
  /\ view = "videos"
  /\ slide # << >> /\ slide[1].req > 0
  /\ slide' = <<[slide[1] EXCEPT !.req = @ - 1, !.playing = TRUE]>>
  /\ UNCHANGED <<view, phase, items, loading, cursor, hasMore, err,
                 activeIndex, authed, meLoading, pending, likes, route, hist,
                 clicks, lastOp, scrollTop, listening>>

\* ReelsClient.tsx:126-133  await v.play() rejected: setPlaying(false)
PlayRejected ==
  /\ view = "videos"
  /\ slide # << >> /\ slide[1].rej > 0
  /\ slide' = <<[slide[1] EXCEPT !.rej = @ - 1, !.playing = FALSE]>>
  /\ UNCHANGED <<view, phase, items, loading, cursor, hasMore, err,
                 activeIndex, authed, meLoading, pending, likes, route, hist,
                 clicks, lastOp, scrollTop, listening>>

\* ReelsClient.tsx:170-171  onPlay / onPause of the <video>
SlideMediaEvent ==
  /\ view = "videos"
  /\ slide # << >> /\ slide[1].evq # << >>
  /\ slide' = <<[slide[1] EXCEPT !.evq = Tail(@),
                                 !.playing = (Head(slide[1].evq) = "play")]>>
  /\ UNCHANGED <<view, phase, items, loading, cursor, hasMore, err,
                 activeIndex, authed, meLoading, pending, likes, route, hist,
                 clicks, lastOp, scrollTop, listening>>

\* ReelsClient.tsx:259-282  simple reels feed, load effect
VideosMount ==
  /\ UNCHANGED <<scrollTop, listening, slide>>
  /\ view = "videos" /\ phase = "new"
  /\ phase' = "mounted"
  /\ FlaggedLoadStart
  /\ lastOp' = "mount"
  /\ UNCHANGED <<view, items, cursor, hasMore, activeIndex, authed, meLoading,
                 likes, route, hist, clicks>>

VideosLoadOk ==
  /\ UNCHANGED scrollTop
  /\ view = "videos"
  /\ \E req \in BagToSet(pending), body \in Bodies :
       /\ pending' = pending (-) SetToBag({req})
       /\ FlaggedLoadOk(req, body)
       /\ ListenerEffect
       /\ SlideFollows(~meLoading /\ ~loading' /\ err' = Null /\ Len(items') > 0,
                       activeIndex = 0, authed)
  /\ lastOp' = "initialOk"
  /\ UNCHANGED <<view, phase, cursor, hasMore, activeIndex, authed, meLoading,
                 likes, route, hist, clicks>>

VideosLoadFail ==
  /\ UNCHANGED <<scrollTop, listening, slide>>
  /\ view = "videos"
  /\ \E req \in BagToSet(pending) :
       /\ pending' = pending (-) SetToBag({req})
       /\ FlaggedLoadFail(req)
  /\ lastOp' = "initialFail"
  /\ UNCHANGED <<view, phase, cursor, hasMore, activeIndex, authed, meLoading,
                 likes, route, hist, clicks>>

\* ReelsClient.tsx:279-281  effect cleanup
VideosUnmount ==
  /\ UNCHANGED scrollTop
  /\ listening' = FALSE
  /\ slide' = << >>
  /\ view = "videos" /\ phase = "mounted"
  /\ phase' = "unmounted"
  /\ pending' = ClearAlive(pending)
  /\ UNCHANGED <<view, items, loading, cursor, hasMore, err, activeIndex,
                 authed, meLoading, likes, route, hist, clicks, lastOp>>

\* ReelsClient.tsx:310-321  Reintentar: window.location.reload()
VideosReload ==
  /\ UNCHANGED slide
  /\ scrollTop' = 0 /\ listening' = FALSE
  /\ view = "videos" /\ phase = "mounted"
  /\ ~meLoading /\ ~loading /\ err # Null
  /\ phase' = "new"
  /\ items' = << >> /\ loading' = TRUE /\ err' = Null /\ activeIndex' = 0
  /\ authed' = FALSE /\ meLoading' = TRUE
  /\ pending' = EmptyBag
  /\ lastOp' = "init"
  /\ UNCHANGED <<view, cursor, hasMore, likes, route, hist, clicks>>

\* part_000:293-317  notifications page, load effect (deps: [authed])
NotificationsLoad ==
  IF authed' THEN FlaggedLoadStart ELSE UNCHANGED <<loading, err, pending>>

NotificationsMount ==
  /\ UNCHANGED <<scrollTop, listening, slide>>
  /\ view = "notifications" /\ phase = "new"
  /\ phase' = "mounted"
  /\ UNCHANGED <<authed, meLoading>>
  /\ NotificationsLoad
  /\ lastOp' = "mount"
  /\ UNCHANGED <<view, items, cursor, hasMore, activeIndex,
                 likes, route, hist, clicks>>

NotificationsLoadOk ==
  /\ UNCHANGED <<scrollTop, listening, slide>>
  /\ view = "notifications"
  /\ \E req \in BagToSet(pending), body \in Bodies :
       /\ pending' = pending (-) SetToBag({req})
       /\ FlaggedLoadOk(req, body)
  /\ lastOp' = "initialOk"
  /\ UNCHANGED <<view, phase, cursor, hasMore, activeIndex, authed, meLoading,
                 likes, route, hist, clicks>>

NotificationsLoadFail ==
  /\ UNCHANGED <<scrollTop, listening, slide>>
  /\ view = "notifications"
  /\ \E req \in BagToSet(pending) :
       /\ pending' = pending (-) SetToBag({req})
       /\ FlaggedLoadFail(req)
  /\ lastOp' = "initialFail"
  /\ UNCHANGED <<view, phase, cursor, hasMore, activeIndex, authed, meLoading,
                 likes, route, hist, clicks>>

NotificationsUnmount ==
  /\ UNCHANGED <<scrollTop, listening, slide>>
  /\ view = "notifications" /\ phase = "mounted"
  /\ phase' = "unmounted"
  /\ pending' = ClearAlive(pending)
  /\ UNCHANGED <<view, items, loading, cursor, hasMore, err, activeIndex,
                 authed, meLoading, likes, route, hist, clicks, lastOp>>

\* part_001:76-107  post feed, load effect
FeedMount ==
  /\ UNCHANGED <<scrollTop, listening, slide>>
  /\ view = "feed" /\ phase = "new"
  /\ phase' = "mounted"
  /\ FlaggedLoadStart
  /\ lastOp' = "mount"
  /\ UNCHANGED <<view, items, cursor, hasMore, activeIndex, authed, meLoading,
                 likes, route, hist, clicks>>

FeedLoadOk ==
  /\ UNCHANGED <<scrollTop, listening, slide>>
  /\ view = "feed"
  /\ \E req \in BagToSet(pending), body \in Bodies :
       /\ pending' = pending (-) SetToBag({req})
       /\ FlaggedLoadOk(req, body)
  /\ lastOp' = "initialOk"
  /\ UNCHANGED <<view, phase, cursor, hasMore, activeIndex, authed, meLoading,
                 likes, route, hist, clicks>>

FeedLoadFail ==
  /\ UNCHANGED <<scrollTop, listening, slide>>
  /\ view = "feed"
  /\ \E req \in BagToSet(pending) :
       /\ pending' = pending (-) SetToBag({req})
       /\ FlaggedLoadFail(req)
  /\ lastOp' = "initialFail"
  /\ UNCHANGED <<view, phase, cursor, hasMore, activeIndex, authed, meLoading,
                 likes, route, hist, clicks>>

FeedUnmount ==
  /\ UNCHANGED <<scrollTop, listening, slide>>
  /\ view = "feed" /\ phase = "mounted"
  /\ phase' = "unmounted"
  /\ pending' = ClearAlive(pending)
  /\ UNCHANGED <<view, items, loading, cursor, hasMore, err, activeIndex,
                 authed, meLoading, likes, route, hist, clicks, lastOp>>

\* ------------------------------------------------------------ environment
\* The session hook finishes resolving, signed in or not.  The
\* notifications effect depends on authed: its cleanup and body run again.
SessionResolved ==
  /\ UNCHANGED <<scrollTop, listening>>
  /\ meLoading /\ phase # "unmounted"
  /\ view # "feed"
  /\ meLoading' = FALSE
  /\ authed' \in BOOLEAN
  /\ SlideFollows(/\ view = "videos" /\ phase = "mounted"
                  /\ ~loading /\ err = Null /\ Len(items) > 0,
                  activeIndex = 0, authed')
  /\ IF view = "notifications" /\ phase = "mounted" /\ authed' # authed
     THEN /\ \E cleaned \in {ClearAlive(pending)} :
               IF authed'
               THEN /\ loading' = TRUE
                    /\ err' = Null
                    /\ pending' = cleaned (+) SetToBag({Request(TRUE, Null, TRUE)})
               ELSE /\ pending' = cleaned
                    /\ UNCHANGED <<loading, err>>
          /\ lastOp' = "mount"
     ELSE UNCHANGED <<loading, err, pending, lastOp>>
  /\ UNCHANGED <<view, phase, items, cursor, hasMore, activeIndex,
                 likes, route, hist, clicks>>

\* The session hook reports a sign-in or sign-out on a mounted page.
\* Followed in the simple reels feed, whose slides derive locked from it.
SessionChanged ==
  /\ view = "videos" /\ phase = "mounted"
  /\ ~meLoading
  /\ SlideRoom
  /\ authed' = ~authed
  /\ SlideFollows(VideosShowsList, activeIndex = 0, authed')
  /\ UNCHANGED <<view, phase, items, loading, cursor, hasMore, err,
                 activeIndex, meLoading, pending, likes, route, hist, clicks,
                 lastOp, scrollTop, listening>>

Next ==
  \/ ReelsMount
  \/ ReelsRetry
  \/ ReelsLoadOk
  \/ ReelsLoadFail
  \/ ReelsScroll
  \/ ReelsLike
  \/ ReelsLikeOk
  \/ ReelsLikeFail
  \/ ReelsUnmount
  \/ VideosMount
  \/ VideosLoadOk
  \/ VideosLoadFail
  \/ VideosUnmount
  \/ VideosReload
  \/ VideosScroll
  \/ MuteToggle
  \/ PlayResolved
  \/ PlayRejected
  \/ SlideMediaEvent
  \/ SessionChanged
  \/ NotificationsMount
  \/ NotificationsLoadOk
  \/ NotificationsLoadFail
  \/ NotificationsUnmount
  \/ FeedMount
  \/ FeedLoadOk
  \/ FeedLoadFail
  \/ FeedUnmount
  \/ SessionResolved

Spec == Init /\ [][Next]_vars

\* The views when the viewer never presses a like button.
NextFeed ==
  \/ ReelsMount
  \/ ReelsRetry
  \/ ReelsLoadOk
  \/ ReelsLoadFail
  \/ ReelsScroll
  \/ ReelsUnmount
  \/ VideosMount
  \/ VideosLoadOk
  \/ VideosLoadFail
  \/ VideosUnmount
  \/ VideosReload
  \/ VideosScroll
  \/ MuteToggle
  \/ PlayResolved
  \/ PlayRejected
  \/ SlideMediaEvent
  \/ SessionChanged
  \/ NotificationsMount
  \/ NotificationsLoadOk
  \/ NotificationsLoadFail
  \/ NotificationsUnmount
  \/ FeedMount
  \/ FeedLoadOk
  \/ FeedLoadFail
  \/ FeedUnmount
  \/ SessionResolved

SpecFeed == Init /\ [][NextFeed]_vars

\* The paginated reels feed on its first page (the list is never scrolled).
InitLikes == Init /\ view = "reels"

NextLikes ==
  \/ ReelsMount
  \/ ReelsRetry
  \/ ReelsLoadOk
  \/ ReelsLoadFail
  \/ ReelsLike
  \/ ReelsLikeOk
  \/ ReelsLikeFail
  \/ ReelsUnmount
  \/ SessionResolved

SpecLikes == InitLikes /\ [][NextLikes]_vars

\* ================================================================ claims
SoleCopy(i) == Cardinality({ j \in 1..Len(items) : items[j].id = items[i].id }) = 1
Settled(i) == ~BagIn(items[i].id, likes)
ServedReel(i) == Reel(items[i].id, Served(items[i].id))

\* C1: at most one listing request (initial load or load-more) is in
\* flight at any time, however many scroll events fire near the end.
C1_OneLoadInFlight == BagCardinality(pending) <= 1

\* C2: a scroll event while more-available is false issues no request and
\* leaves the loaded sequence and the cursor unchanged.
C2_NoOpWhenNoMore ==
  [][(~hasMore /\ ReelsScroll) => UNCHANGED <<items, cursor, pending>>]_vars

C2_Witness ==
  /\ view = "reels" /\ lastOp = "scroll"
  /\ ~hasMore /\ ~loading
  /\ Len(items) > 0 /\ activeIndex >= Len(items) - Lookahead
  /\ pending = EmptyBag

\* C3: a single like toggle whose confirming request failed leaves the
\* reel's likesCount and viewerHasLiked as they were before the toggle.
C3_RollbackRestores ==
  \A i \in 1..Len(items) :
    (view = "reels" /\ hist[i].applied = 1 /\ hist[i].reverted = 1 /\ Settled(i) /\ SoleCopy(i))
      => Shown(items[i]) = Shown(ServedReel(i))

\* C4: two like toggles that were both confirmed leave the reel's
\* likesCount and viewerHasLiked as they were before the first toggle.
C4_DoubleToggleRestores ==
  \A i \in 1..Len(items) :
    (view = "reels" /\ hist[i].applied = 2 /\ hist[i].reverted = 0 /\ Settled(i) /\ SoleCopy(i))
      => Shown(items[i]) = Shown(ServedReel(i))

\* C5: after any sequence of toggles, confirmations and rollbacks every
\* reel's likesCount is greater than or equal to zero.
C5_LikesCountNonNegative ==
  view = "reels" => \A i \in 1..Len(items) : OrZero(items[i].likesCount) >= 0

\* the clamp acted: an unlike of a reel whose counter was already 0
C5_Witness ==
  \E i \in 1..Len(hist) :
    /\ Served(items[i].id).likesCount = Some(0)
    /\ hist[i].applied = 1 /\ hist[i].reverted = 0
    /\ items[i].viewerHasLiked = Some(FALSE)
    /\ items[i].likesCount = Some(0)

\* C6: with the session resolved and the viewer not signed in, a like
\* click sends no request and mutates no item; it navigates to sign-in.
C6_UnauthedLikeRedirects ==
  [][(~authed /\ ~meLoading /\ ReelsLike)
       => (items' = items /\ likes' = likes /\ route' = LoginPath)]_vars

C6_Witness ==
  /\ view = "reels" /\ ~authed /\ ~meLoading
  /\ route = LoginPath
  /\ Len(items) > 0 /\ clicks = 0 /\ likes = EmptyBag

\* C7: while the session is still resolving, a like click applies no
\* optimistic mutation and sends no like request.
C7_PendingSessionDefers ==
  [][(meLoading /\ ReelsLike) => (items' = items /\ likes' = likes)]_vars

\* C8: in every view, nothing that resolves after teardown updates
\* items, cursor, more-available, error or loading.
C8_NoUpdateAfterTeardown ==
  [][phase = "unmounted" => UNCHANGED <<items, cursor, hasMore, err, loading>>]_vars

\* C9: a failed load-more keeps the loaded sequence, sets the error and
\* clears more-available, and from then on pagination stays stopped: no
\* further request is issued and more-available does not return to true.
C9_FailedLoadMoreStopsPaging ==
  [][ /\ (ReelsLoadFail /\ lastOp' = "moreFail")
           => (items' = items /\ err' # Null /\ ~hasMore')
      /\ (lastOp = "moreFail")
           => (~hasMore' /\ BagCardinality(pending') <= BagCardinality(pending))
    ]_vars

\* C10: an initial load that completed while the view is mounted leaves
\* loading false; after a failed one the error is set and, in the
\* paginated feed, more-available is false.
C10_InitialLoadClearsLoading ==
  /\ (phase = "mounted" /\ lastOp \in {"initialOk", "initialFail"}) => ~loading
  /\ (phase = "mounted" /\ lastOp = "initialFail")
       => (err # Null /\ (view = "reels" => ~hasMore))

C10_Witness ==
  /\ view = "reels" /\ phase = "mounted"
  /\ lastOp = "initialFail"
  /\ ~loading /\ err # Null /\ ~hasMore

\* a step that applies response resp to the listing request req
LoadOkStep(req, resp) ==
  /\ view = "reels"
  /\ pending' = pending (-) SetToBag({req})
  /\ loadMoreOk(req, resp)

Answers(req) ==
  ListingResponses(req.cursor,
                   IF req.initial THEN MaxItems ELSE MaxItems - Len(items), TRUE)

FlagOrCursor(resp) ==
  IF resp.hasMore = Absent THEN resp.nextCursor # Null ELSE resp.hasMore[1]

\* C11 as stated: after every successful load more-available equals the
\* explicit hasMore flag, or (nextCursor is non-null) without one, and the
\* cursor equals the returned nextCursor, zero returned items included.
C11_HasMoreFromFlagOrCursor ==
  [][\A req \in BagToSet(pending) : \A resp \in Answers(req) :
       LoadOkStep(req, resp)
         => (hasMore' = FlagOrCursor(resp) /\ cursor' = resp.nextCursor)]_vars

\* C11 as amended: the same, except that a page of zero items always
\* leaves more-available false.
C11_HasMoreUnlessEmptyPage ==
  [][\A req \in BagToSet(pending) : \A resp \in Answers(req) :
       LoadOkStep(req, resp)
         => /\ hasMore' = (FlagOrCursor(resp) /\ Len(resp.items) > 0)
            /\ cursor' = resp.nextCursor]_vars

\* an explicit hasMore=false won over a returned cursor
C11_Witness ==
  /\ view = "reels" /\ lastOp = "initialOk"
  /\ Len(items) > 0 /\ cursor # Null /\ ~hasMore

\* the lowest index among the slides whose offset is closest to top
Nearest(n, top) ==
  CHOOSE k \in 0..(n - 1) :
    /\ \A j \in 0..(n - 1) : Dist(k, top) <= Dist(j, top)
    /\ \A j \in 0..(k - 1) : Dist(j, top) > Dist(k, top)

\* C12: on every scroll event, in the paginated and in the simple reels
\* feed, the active index becomes the index of the slide whose offset is
\* closest to the scroll position, the lowest index on ties.
C12_ScrollSelectsNearest ==
  [][(ReelsScroll \/ VideosScroll)
       => activeIndex' = Nearest(Len(items), scrollTop')]_vars

\* C13: the active index is a valid position of a non-empty list, and 0
\* while the list is empty.
C13_ActiveIndexInRange ==
  IF Len(items) = 0 THEN activeIndex = 0
  ELSE 0 <= activeIndex /\ activeIndex < Len(items)

\* a scroll event past the last slide was clamped to the last index
C13_Witness ==
  /\ view = "videos" /\ lastOp = "scroll" /\ listening
  /\ Len(items) >= 2
  /\ scrollTop > (Len(items) - 1) * SlideH
  /\ activeIndex = Len(items) - 1

\* nothing is still to be delivered to the slide
SlideQuiet(s) == s.req = 0 /\ s.rej = 0 /\ s.evq = << >>

\* C14: once every pending promise and media event has been delivered, a
\* slide that is inactive or locked does not have its playing flag set,
\* whatever active-index changes, authentication changes and mute toggles
\* came before; and play() is called only on the active, non-locked slide.
C14_IdleSlideNotPlaying ==
  [][slide' # << >> =>
       /\ (SlideQuiet(slide'[1])
             /\ (activeIndex' # 0 \/ Locked(slide'[1], authed')))
            => ~slide'[1].playing
       /\ (slide # << >> /\ slide'[1].req + slide'[1].rej
                               > slide[1].req + slide[1].rej)
            => (activeIndex' = 0 /\ ~Locked(slide'[1], authed'))]_vars

\* the served reel with the confirmed toggles, and only those, applied
Confirmed(i) ==
  LET n == hist[i].applied - hist[i].reverted
      r0 == ServedReel(i)
  IN IF n = 0 THEN r0 ELSE IF n = 1 THEN Toggle(r0) ELSE Toggle(Toggle(r0))

\* C15: like toggles on one reel are not coalesced: every click that
\* reaches the optimistic update toggles the reel and sends its own
\* request, also while an earlier request for that reel is in flight.
C15_TogglesNotCoalesced ==
  [][clicks' = clicks + 1
       => \E i \in 1..Len(items) :
            /\ items' = ToggleById(items, items[i].id)
            /\ likes' = likes (+) SetToBag({items[i].id})]_vars

\* two toggles on one reel overlapped, both requests have settled, and
\* the reel is not the served reel with the confirmed toggles applied
C15_Witness ==
  /\ view = "reels"
  /\ \E i \in 1..Len(items) :
       /\ SoleCopy(i) /\ Settled(i)
       /\ hist[i].applied = 2 /\ hist[i].raced
       /\ Shown(items[i]) # Shown(Confirmed(i))

\* C16: in the paginated feed, more-available true after a successful
\* load comes with a stored cursor, and every load-more request carries a
\* cursor, so none asks for the first page again.
C16_MoreImpliesCursor ==
  view = "reels" =>
    /\ (lastOp \in {"initialOk", "moreOk"} /\ hasMore) => cursor # Null
    /\ \A r \in BagToSet(pending) : ~r.initial => r.cursor # Null

====
